---- MODULE Spec2Model ----
(***************************************************************************)
(* Bounded-load consistent hash ring (consistent::Consistent).             *)
(*                                                                         *)
(* Strings are sequences of byte values, hash positions are the low        *)
(* HashBits bits of an FNV-1a hash, member pointers are records            *)
(* [name, id] where id tells the objects that carried one name apart, and  *)
(* the load factor is the exact rational <<numerator, denominator>>.       *)
(***************************************************************************)
EXTENDS Integers, Sequences, FiniteSets

(* ------------------------------ bounds --------------------------------- *)
HashBits == 3        \* width of a hash position kept by the model
MaxInit  == 2        \* longest initial member list of a running ring
MaxCalls == 3        \* calls made on a running ring

(* ------------------------- program constants --------------------------- *)
DEFAULT_PARTITION_COUNT    == 271
DEFAULT_REPLICATION_FACTOR == 20
DEFAULT_LOAD               == <<5, 4>>
\* 1099511628211 = 2^40 + 435: every width up to 40 bits sees 435
FNV_PRIME == 435
\* 14695981039346656037 = 0xCBF29CE484222325: every width up to 16 bits
\* sees 0x2325
FNV_OFFSET_BASIS == 8997

HashSpace == 2 ^ HashBits
NoHasher  == HashSpace              \* config.hasher == nullptr
\* the hashers a ring is built with, each known by its offset basis: FNV-1a,
\* and the same fold started at 0
Bases     == {FNV_OFFSET_BASIS % HashSpace, 0}

Names   == {<<65>>, <<66>>, <<67>>}          \* "A", "B", "C"
NullPtr == [name |-> <<>>, id |-> 0]         \* nullptr
Threads == {1, 2}

VARIABLES
  config_,          \* [hasher, partition_count, replication_factor, load]
  members_,         \* name -> owned member object
  ring_,            \* hash position -> member pointer
  sorted_set_,      \* ascending sequence of hash positions
  partitions_,      \* partition id -> member pointer
  loads_,           \* name -> number of partitions
  ctor,             \* construction: [status, members, cfg]
  mutex_,           \* thread holding the lock exclusively, or 0
  pc,               \* thread -> position in its current call
  arg,              \* thread -> argument of its current call
  tmp,              \* thread -> locals of its current call, and the ring as
                    \* it was when the call took the exclusive lock
  last,             \* the call that ended in the last step: [t, op, arg, status, val]
  calls,            \* number of calls started on the running ring
  snapshot,         \* the table and the loads as they were before the last
                    \* Add, while no other mutation has followed it
  cached_members_,  \* the member pointers GetMembers last collected
  members_dirty_    \* TRUE when the cache has to be rebuilt

ringVars == <<members_, ring_, sorted_set_, partitions_, loads_>>
vars == <<config_, members_, ring_, sorted_set_, partitions_, loads_,
          ctor, mutex_, pc, arg, tmp, last, calls, snapshot,
          cached_members_, members_dirty_>>
cacheVars == <<cached_members_, members_dirty_>>

(* ------------------------------ helpers -------------------------------- *)
EmptyMap == [x \in {} |-> 0]

Put(f, k, v) == [x \in (DOMAIN f) \cup {k} |-> IF x = k THEN v ELSE f[x]]

Erase(f, k) == [x \in (DOMAIN f) \ {k} |-> f[x]]

Range(f) == {f[x] : x \in DOMAIN f}

RECURSIVE BitXor(_, _)
BitXor(a, b) ==
  IF a = 0 THEN b
  ELSE IF b = 0 THEN a
  ELSE ((a + b) % 2) + 2 * BitXor(a \div 2, b \div 2)

RECURSIVE SumSeq(_)
SumSeq(s) == IF s = <<>> THEN 0 ELSE Head(s) + SumSeq(Tail(s))

RECURSIVE SumLoads(_)
SumLoads(f) ==
  IF DOMAIN f = {} THEN 0
  ELSE LET k == CHOOSE x \in DOMAIN f : TRUE
       IN  f[k] + SumLoads(Erase(f, k))

\* std::ceil of the real num/den, den > 0
Ceil(num, den) == IF num % den = 0 THEN num \div den ELSE (num \div den) + 1

\* the array left in insertion order
InsertionOrder(s) == s

\* std::sort of a vector of hash positions: position i holds the value v
\* with fewer than i elements below it and at least i elements up to it
Sort(s) ==
  [i \in 1 .. Len(s) |->
     CHOOSE v \in {s[j] : j \in 1 .. Len(s)} :
       /\ Cardinality({j \in 1 .. Len(s) : s[j] < v}) < i
       /\ i <= Cardinality({j \in 1 .. Len(s) : s[j] <= v})]

RECURSIVE SetToSeq(_)
SetToSeq(S) ==
  IF S = {} THEN <<>>
  ELSE LET k == CHOOSE x \in S : TRUE IN <<k>> \o SetToSeq(S \ {k})

\* std::lower_bound as a 0-based index: Len(s) stands for end()
LowerBound(s, v) ==
  IF \E i \in 1 .. Len(s) : s[i] >= v
  THEN (CHOOSE i \in 1 .. Len(s) :
          s[i] >= v /\ \A j \in 1 .. (i - 1) : s[j] < v) - 1
  ELSE Len(s)

(* ------------------------------- hasher -------------------------------- *)
\* FNVHasher::Sum64: hash ^= byte; hash *= FNV_PRIME, kept to HashBits bits
RECURSIVE FnvFold(_, _)
FnvFold(hash, data) ==
  IF data = <<>> THEN hash
  ELSE FnvFold((BitXor(hash, Head(data)) * (FNV_PRIME % HashSpace)) % HashSpace,
               Tail(data))

\* config.hasher->Sum64(data); the hasher is known by its offset basis
Sum64(cfg, data) == FnvFold(cfg.hasher, data)

\* std::to_string(index)
RECURSIVE to_string(_)
to_string(i) ==
  IF i < 10 THEN <<48 + i>> ELSE to_string(i \div 10) \o <<48 + (i % 10)>>

BuildVirtualNodeKey(member_str, index) == member_str \o to_string(index)

\* the replication_factor hash positions of a member, in index order
VNodeHashes(cfg, name) ==
  [i \in 1 .. cfg.replication_factor |->
     Sum64(cfg, BuildVirtualNodeKey(name, i - 1))]

\* partition id as 8 little-endian bytes
RECURSIVE LittleEndian(_, _)
LittleEndian(v, n) ==
  IF n = 0 THEN <<>> ELSE <<v % 256>> \o LittleEndian(v \div 256, n - 1)

PartitionBytes(part_id) == LittleEndian(part_id, 8)

(* ------------------------------ placement ------------------------------ *)
\* load + 1 <= avg_load, avg_load being the real capNum / capDen
UnderCap(load, capNum, capDen) == (load + 1) * capDen <= capNum

\* the attempt counter gives up here
WalkExhausted(count, size) == count >= size

\* the walk of one partition: count is the number of attempts so far, idx the
\* 0-based position; loads[...] default-inserts 0; a position missing from the
\* ring map ends the walk with std::out_of_range
RECURSIVE WalkRing(_, _, _, _, _, _, _)
WalkRing(ring, sorted_set, loads, capNum, capDen, idx, count) ==
  IF WalkExhausted(count + 1, Len(sorted_set))
  THEN [err |-> "InsufficientSpace", member |-> NullPtr, loads |-> loads]
  ELSE LET hash == sorted_set[idx + 1] IN
    IF hash \notin DOMAIN ring
    THEN [err |-> "out_of_range", member |-> NullPtr, loads |-> loads]
    ELSE LET member == ring[hash]
             seen   == IF member.name \in DOMAIN loads
                       THEN loads ELSE Put(loads, member.name, 0)
         IN IF UnderCap(seen[member.name], capNum, capDen)
            THEN [err |-> "none", member |-> member,
                  loads |-> Put(seen, member.name, seen[member.name] + 1)]
            ELSE WalkRing(ring, sorted_set, seen, capNum, capDen,
                          IF idx + 1 >= Len(sorted_set) THEN 0 ELSE idx + 1,
                          count + 1)

\* the loop over part_id = from .. partition_count - 1
RECURSIVE PlacePartitions(_, _, _, _, _, _, _, _)
PlacePartitions(cfg, ring, sorted_set, capNum, capDen, part_id, partitions, loads) ==
  IF part_id >= cfg.partition_count
  THEN [err |-> "none", partitions |-> partitions, loads |-> loads]
  ELSE LET key == Sum64(cfg, PartitionBytes(part_id))
           lb  == LowerBound(sorted_set, key)
           idx == IF lb >= Len(sorted_set) THEN 0 ELSE lb
           w   == WalkRing(ring, sorted_set, loads, capNum, capDen, idx, 0)
       IN IF w.err # "none"
          THEN [err |-> w.err, partitions |-> partitions, loads |-> w.loads]
          ELSE PlacePartitions(cfg, ring, sorted_set, capNum, capDen, part_id + 1,
                               Put(partitions, part_id, w.member), w.loads)

\* the cap of the constructor's placement: AverageLoad(), not rounded
AverageLoad(cfg, members) ==
  IF DOMAIN members = {} THEN <<0, 1>>
  ELSE <<cfg.partition_count * cfg.load[1],
         Cardinality(DOMAIN members) * cfg.load[2]>>

DistributePartitions(cfg, members, ring, sorted_set) ==
  LET avg == AverageLoad(cfg, members)
  IN  PlacePartitions(cfg, ring, sorted_set, avg[1], avg[2], 0, EmptyMap, EmptyMap)

\* the cap of every later placement: std::ceil(P / member_count * load);
\* member_count is -1 when size() - 1 wraps on an empty registry
CeilAvgLoad(cfg, member_count) ==
  IF member_count < 0
  THEN Ceil(0 - cfg.partition_count * cfg.load[1], (0 - member_count) * cfg.load[2])
  ELSE Ceil(cfg.partition_count * cfg.load[1], member_count * cfg.load[2])

CalculatePartitionsWithRingAndMemberCount(cfg, ring, sorted_set, member_count) ==
  IF member_count = 0
  THEN [err |-> "none", partitions |-> EmptyMap, loads |-> EmptyMap]
  ELSE PlacePartitions(cfg, ring, sorted_set, CeilAvgLoad(cfg, member_count), 1,
                       0, EmptyMap, EmptyMap)

(* ----------------------------- construction ---------------------------- *)
\* zero values adopt the defaults
ApplyDefaults(cfg) ==
  [hasher |-> cfg.hasher,
   partition_count |-> IF cfg.partition_count = 0
                       THEN DEFAULT_PARTITION_COUNT ELSE cfg.partition_count,
   replication_factor |-> IF cfg.replication_factor = 0
                          THEN DEFAULT_REPLICATION_FACTOR
                          ELSE cfg.replication_factor,
   load |-> IF cfg.load[1] = 0 THEN DEFAULT_LOAD ELSE cfg.load]

\* a validation that also rejects a cap of exactly 2R
ValidateConfigRejectingAtCap(member_count, config) ==
  IF config.hasher = NoHasher THEN TRUE
  ELSE IF member_count = 0 THEN FALSE
  ELSE Ceil(config.partition_count * config.load[1], member_count * config.load[2])
         >= config.replication_factor * 2

\* TRUE when ValidateConfig throws std::invalid_argument
ValidateConfig(member_count, config) ==
  IF config.hasher = NoHasher THEN TRUE
  ELSE IF member_count = 0 THEN FALSE
  ELSE Ceil(config.partition_count * config.load[1], member_count * config.load[2])
         > config.replication_factor * 2

\* ring[h] = member for every h of hashes, in order
RECURSIVE PutAll(_, _, _)
PutAll(ring, hashes, member) ==
  IF hashes = <<>> THEN ring
  ELSE PutAll(Put(ring, Head(hashes), member), Tail(hashes), member)

EmptyRing(cfg) ==
  [config |-> cfg, members |-> EmptyMap, ring |-> EmptyMap, sorted_set |-> <<>>,
   partitions |-> EmptyMap, loads |-> EmptyMap]

\* a new object of that name: an id that no pointer in refs carries
NewObject(name, refs) ==
  [name |-> name,
   id |-> CHOOSE i \in 1 .. (Cardinality(refs) + 1) :
            /\ [name |-> name, id |-> i] \notin refs
            /\ \A j \in 1 .. (i - 1) : [name |-> name, id |-> j] \in refs]

\* a fresh object takes the map slot of its name; the object that held the
\* slot before is destroyed
InitMember(st, member_name) ==
  LET stable_ptr == NewObject(member_name, Range(st.members))
      hashes     == VNodeHashes(st.config, member_name)
  IN  [st EXCEPT !.members = Put(@, member_name, stable_ptr),
                 !.ring = PutAll(@, hashes, stable_ptr),
                 !.sorted_set = Sort(@ \o hashes)]

RECURSIVE InitMembers(_, _)
InitMembers(st, list) ==
  IF list = <<>> THEN st ELSE InitMembers(InitMember(st, Head(list)), Tail(list))

\* Consistent::Consistent: [status, st]
Constructor(list, rawcfg) ==
  LET cfg == ApplyDefaults(rawcfg) IN
  IF ValidateConfig(Len(list), cfg)
  THEN [status |-> "invalid_argument", st |-> EmptyRing(cfg)]
  ELSE LET st == InitMembers(EmptyRing(cfg), list) IN
       IF list = <<>> THEN [status |-> "ok", st |-> st]
       ELSE LET d == DistributePartitions(cfg, st.members, st.ring, st.sorted_set)
            IN IF d.err # "none" THEN [status |-> d.err, st |-> st]
               ELSE [status |-> "ok",
                     st |-> [st EXCEPT !.partitions = d.partitions,
                                       !.loads = d.loads]]

(* ------------------------- state of a running ring --------------------- *)
NoLocals == [partitions |-> EmptyMap, loads |-> EmptyMap, before |-> <<>>]
NoReturn == [t |-> 0, op |-> "none", arg |-> <<>>, status |-> "none", val |-> <<>>]
NoSnapshot == [name |-> <<>>, partitions |-> EmptyMap, loads |-> EmptyMap]

\* the call op(a) of thread t ends
Returns(t, op, a, status, val) ==
  /\ last' = [t |-> t, op |-> op, arg |-> a, status |-> status, val |-> val]
  /\ pc' = [pc EXCEPT ![t] = "idle"]
  /\ arg' = [arg EXCEPT ![t] = <<>>]
  /\ tmp' = [tmp EXCEPT ![t] = NoLocals]

\* the call of thread t goes on at position p
Continues(t, p) ==
  /\ last' = NoReturn
  /\ pc' = [pc EXCEPT ![t] = p]

\* thread t starts a call
Starts(t) ==
  /\ pc[t] = "idle"
  /\ calls < MaxCalls
  /\ calls' = calls + 1

\* lock_shared() goes through: nobody holds the lock exclusively
LockFree == mutex_ = 0

\* lock() goes through: nobody holds the lock, shared or exclusively
LockFreeForWrite == LockFree /\ \A t \in Threads : pc[t] # "closest_loop"

\* every member pointer held by the ring or by a call in progress
Referenced ==
  Range(members_) \cup Range(ring_) \cup Range(partitions_)
    \cup UNION {Range(tmp[t].partitions) : t \in Threads}

(* --------------------------------- Add --------------------------------- *)
AddToRing(ring, sorted_set, member) ==
  LET hashes == VNodeHashes(config_, member.name)
  IN  [ring |-> PutAll(ring, hashes, member),
       sorted_set |-> Sort(sorted_set \o hashes)]

\* the first check, under the shared lock
AddCheck(t, name) ==
  /\ Starts(t)
  /\ LockFree
  /\ IF name \in DOMAIN members_
     THEN Returns(t, "Add", name, "noop", <<>>)
     ELSE /\ Continues(t, "add_write")
          /\ arg' = [arg EXCEPT ![t] = name]
          /\ UNCHANGED tmp
  /\ UNCHANGED cacheVars
  /\ UNCHANGED <<config_, ctor, ringVars, mutex_, snapshot>>

\* AddWrite without its second check of the name
AddWriteWithoutSecondCheck(t) ==
  /\ pc[t] = "add_write"
  /\ LockFreeForWrite
  /\ LET stable_ptr == NewObject(arg[t], Referenced)
         r == AddToRing(ring_, sorted_set_, stable_ptr)
     IN /\ members_' = Put(members_, arg[t], stable_ptr)
        /\ ring_' = r.ring
        /\ sorted_set_' = r.sorted_set
        /\ mutex_' = t
        /\ Continues(t, "add_calc")
        /\ tmp' = [tmp EXCEPT ![t].before = ringVars]
        /\ snapshot' = NoSnapshot
        /\ UNCHANGED <<partitions_, loads_, arg>>
  /\ UNCHANGED cacheVars
  /\ UNCHANGED <<config_, ctor, calls>>

\* the exclusive lock, the second check, the registry and the ring
AddWrite(t) ==
  /\ pc[t] = "add_write"
  /\ LockFreeForWrite
  /\ IF arg[t] \in DOMAIN members_
     THEN /\ Returns(t, "Add", arg[t], "noop", <<>>)
          /\ UNCHANGED <<ringVars, mutex_, snapshot>>
     ELSE LET stable_ptr == NewObject(arg[t], Referenced)
              r == AddToRing(ring_, sorted_set_, stable_ptr)
          IN /\ members_' = Put(members_, arg[t], stable_ptr)
             /\ ring_' = r.ring
             /\ sorted_set_' = r.sorted_set
             /\ mutex_' = t
             /\ Continues(t, "add_calc")
             /\ tmp' = [tmp EXCEPT ![t].before = ringVars]
             /\ snapshot' = NoSnapshot
             /\ UNCHANGED <<partitions_, loads_, arg>>
  /\ UNCHANGED cacheVars
  /\ UNCHANGED <<config_, ctor, calls>>

CalculatePartitionsWithNewMember(member_name) ==
  IF member_name \notin DOMAIN members_
  THEN [err |-> "none", partitions |-> partitions_, loads |-> loads_]
  ELSE LET new_member == members_[member_name]
           hashes == VNodeHashes(config_, member_name)
           temp_ring == PutAll(ring_, hashes, new_member)
           temp_sorted_set == Sort(sorted_set_ \o hashes)
       IN CalculatePartitionsWithRingAndMemberCount(
            config_, temp_ring, temp_sorted_set, Cardinality(DOMAIN members_))

\* lock_shared() by the thread that owns the mutex exclusively is undefined:
\* the lock is granted, or the call throws std::system_error (EDEADLK), or
\* the thread waits for itself
LockSharedWhileOwned == {"granted", "system_error", "wait"}

\* the placement of Add, entered with the exclusive lock held
AddCalc(t) ==
  /\ pc[t] = "add_calc"
  /\ mutex_ = t
  /\ \E outcome \in LockSharedWhileOwned :
       CASE outcome = "wait" ->
              /\ Continues(t, "add_wait")
              /\ UNCHANGED <<ringVars, mutex_, arg, tmp, snapshot, members_dirty_>>
         [] outcome = "system_error" ->
              /\ Returns(t, "Add", arg[t], "system_error", <<>>)
              /\ mutex_' = 0
              /\ UNCHANGED <<ringVars, snapshot, members_dirty_>>
         [] outcome = "granted" ->
              LET r == CalculatePartitionsWithNewMember(arg[t])
              IN /\ mutex_' = 0
                 /\ IF r.err # "none"
                    THEN /\ Returns(t, "Add", arg[t], r.err, <<>>)
                         /\ UNCHANGED <<ringVars, snapshot, members_dirty_>>
                    ELSE /\ Returns(t, "Add", arg[t], "ok", <<>>)
                         /\ members_dirty_' = TRUE
                         /\ partitions_' = r.partitions
                         /\ loads_' = r.loads
                         /\ snapshot' = [name |-> arg[t], partitions |-> partitions_,
                                          loads |-> loads_]
                         /\ UNCHANGED <<members_, ring_, sorted_set_>>
  /\ UNCHANGED <<config_, ctor, calls, cached_members_>>

(* ----------------------------- RemoveByName ---------------------------- *)
\* binary-search delete of one occurrence
DelSlice(sorted_set, val) ==
  LET it == LowerBound(sorted_set, val)
  IN  IF it < Len(sorted_set) /\ sorted_set[it + 1] = val
      THEN SubSeq(sorted_set, 1, it) \o SubSeq(sorted_set, it + 2, Len(sorted_set))
      ELSE sorted_set

RECURSIVE RemoveHashes(_, _, _)
RemoveHashes(ring, sorted_set, hashes) ==
  IF hashes = <<>> THEN [ring |-> ring, sorted_set |-> sorted_set]
  ELSE RemoveHashes(Erase(ring, Head(hashes)),
                    DelSlice(sorted_set, Head(hashes)), Tail(hashes))

RemoveFromRing(ring, sorted_set, name) ==
  RemoveHashes(ring, sorted_set, VNodeHashes(config_, name))

CalculatePartitionsWithoutMember(member_name) ==
  LET hs == VNodeHashes(config_, member_name)
      hashes_to_delete == {hs[i] : i \in DOMAIN hs}
      kept == (DOMAIN ring_) \ hashes_to_delete
      temp_ring == [h \in kept |-> ring_[h]]
      temp_sorted_set == Sort(SetToSeq(kept))
  IN  CalculatePartitionsWithRingAndMemberCount(
        config_, temp_ring, temp_sorted_set, Cardinality(DOMAIN members_) - 1)

\* the first check, under the shared lock
RemoveCheck(t, name) ==
  /\ Starts(t)
  /\ LockFree
  /\ IF name \notin DOMAIN members_
     THEN Returns(t, "RemoveByName", name, "noop", <<>>)
     ELSE /\ Continues(t, "rm_calc")
          /\ arg' = [arg EXCEPT ![t] = name]
          /\ UNCHANGED tmp
  /\ UNCHANGED cacheVars
  /\ UNCHANGED <<config_, ctor, ringVars, mutex_, snapshot>>

\* the placement of RemoveByName, under a second shared lock
RemoveCalc(t) ==
  /\ pc[t] = "rm_calc"
  /\ LockFree
  /\ LET r == CalculatePartitionsWithoutMember(arg[t])
     IN IF r.err # "none"
        THEN Returns(t, "RemoveByName", arg[t], r.err, <<>>)
        ELSE /\ Continues(t, "rm_write")
             /\ tmp' = [tmp EXCEPT ![t].partitions = r.partitions,
                                    ![t].loads = r.loads]
             /\ UNCHANGED arg
  /\ UNCHANGED cacheVars
  /\ UNCHANGED <<config_, ctor, calls, ringVars, mutex_, snapshot>>

\* RemoveWrite without its second check of the name
RemoveWriteWithoutSecondCheck(t) ==
  /\ pc[t] = "rm_write"
  /\ LockFreeForWrite
  /\ LET r == RemoveFromRing(ring_, sorted_set_, arg[t])
         lastOne == Cardinality(DOMAIN members_) = 1
     IN /\ ring_' = r.ring
        /\ sorted_set_' = r.sorted_set
        /\ partitions_' = IF lastOne THEN EmptyMap ELSE tmp[t].partitions
        /\ loads_' = IF lastOne THEN EmptyMap ELSE tmp[t].loads
        /\ members_' = Erase(members_, arg[t])
        /\ snapshot' = NoSnapshot
        /\ members_dirty_' = TRUE
        /\ Returns(t, "RemoveByName", arg[t], "ok", <<>>)
  /\ UNCHANGED <<config_, ctor, calls, mutex_, cached_members_>>

\* the exclusive lock, the second check and the publication
RemoveWrite(t) ==
  /\ pc[t] = "rm_write"
  /\ LockFreeForWrite
  /\ IF arg[t] \notin DOMAIN members_
     THEN /\ Returns(t, "RemoveByName", arg[t], "noop", <<>>)
          /\ UNCHANGED <<ringVars, snapshot, members_dirty_>>
     ELSE LET r == RemoveFromRing(ring_, sorted_set_, arg[t])
              lastOne == Cardinality(DOMAIN members_) = 1
          IN /\ ring_' = r.ring
             /\ sorted_set_' = r.sorted_set
             /\ partitions_' = IF lastOne THEN EmptyMap ELSE tmp[t].partitions
             /\ loads_' = IF lastOne THEN EmptyMap ELSE tmp[t].loads
             /\ members_' = Erase(members_, arg[t])
             /\ snapshot' = NoSnapshot
             /\ members_dirty_' = TRUE
             /\ Returns(t, "RemoveByName", arg[t], "ok", <<>>)
  /\ UNCHANGED <<config_, ctor, calls, mutex_, cached_members_>>

(* -------------------------------- reads ------------------------------- *)
Keys == {<<107>>, <<108>>}                   \* "k", "l"

GetPartitionID(key) == Sum64(config_, key) % config_.partition_count

GetPartitionOwner(part_id) ==
  IF part_id \in DOMAIN partitions_ THEN partitions_[part_id] ELSE NullPtr

\* ring_.empty(), read before any lock is taken
LocateCheck(t, key) ==
  /\ Starts(t)
  /\ IF DOMAIN ring_ = {}
     THEN Returns(t, "LocateKey", key, "ok", <<NullPtr>>)
     ELSE /\ Continues(t, "loc_lock")
          /\ arg' = [arg EXCEPT ![t] = key]
          /\ UNCHANGED tmp
  /\ UNCHANGED cacheVars
  /\ UNCHANGED <<config_, ctor, ringVars, mutex_, snapshot>>

\* the lookup, under the shared lock
LocateLock(t) ==
  /\ pc[t] = "loc_lock"
  /\ LockFree
  /\ Returns(t, "LocateKey", arg[t], "ok", <<GetPartitionOwner(GetPartitionID(arg[t]))>>)
  /\ UNCHANGED cacheVars
  /\ UNCHANGED <<config_, ctor, ringVars, mutex_, calls, snapshot>>

\* the while loop of GetClosestN: idle counts the steps since a member was
\* last collected; a whole turn of the array that collects nobody repeats forever
RECURSIVE ClosestWalk(_, _, _, _, _)
ClosestWalk(count, idx, result, seen, idle) ==
  IF ~(Len(result) < count /\ Cardinality(seen) < Cardinality(DOMAIN members_))
  THEN [status |-> "ok", val |-> result]
  ELSE IF idle >= Len(sorted_set_)
  THEN [status |-> "no_return", val |-> result]
  ELSE LET hash == sorted_set_[idx + 1] IN
    IF hash \notin DOMAIN ring_
    THEN [status |-> "out_of_range", val |-> <<>>]
    ELSE LET member == ring_[hash]
             next == IF idx + 1 >= Len(sorted_set_) THEN 0 ELSE idx + 1
         IN IF member.name \notin seen
            THEN ClosestWalk(count, next, Append(result, member),
                             seen \cup {member.name}, 0)
            ELSE ClosestWalk(count, next, result, seen, idle + 1)

\* GetClosestN whose walk starts at the hash of the key, not of the owner
GetClosestNFromKeyHash(key, count) ==
  IF count > Cardinality(DOMAIN members_) \/ sorted_set_ = <<>>
  THEN [status |-> "InsufficientMemberCount", val |-> <<>>]
  ELSE LET owner == GetPartitionOwner(GetPartitionID(key)) IN
    IF owner = NullPtr
    THEN [status |-> "InsufficientMemberCount", val |-> <<>>]
    ELSE IF owner \notin Range(members_)
    THEN [status |-> "use_after_free", val |-> <<>>]
    ELSE LET owner_key == Sum64(config_, key)
             it == LowerBound(sorted_set_, owner_key)
             start_idx == IF it >= Len(sorted_set_) THEN 0 ELSE it
         IN ClosestWalk(count, start_idx, <<>>, {}, 0)

\* GetClosestN without the test of count against the number of members
GetClosestNWithoutCountTest(key, count) ==
  IF sorted_set_ = <<>>
  THEN [status |-> "InsufficientMemberCount", val |-> <<>>]
  ELSE LET owner == GetPartitionOwner(GetPartitionID(key)) IN
    IF owner = NullPtr
    THEN [status |-> "InsufficientMemberCount", val |-> <<>>]
    ELSE IF owner \notin Range(members_)
    THEN [status |-> "use_after_free", val |-> <<>>]
    ELSE LET owner_key == Sum64(config_, owner.name)
             it == LowerBound(sorted_set_, owner_key)
             start_idx == IF it >= Len(sorted_set_) THEN 0 ELSE it
         IN ClosestWalk(count, start_idx, <<>>, {}, 0)

\* GetClosestN(key, count) past the count <= 0 test, under the shared lock
GetClosestN(key, count) ==
  IF count > Cardinality(DOMAIN members_) \/ sorted_set_ = <<>>
  THEN [status |-> "InsufficientMemberCount", val |-> <<>>]
  ELSE LET owner == GetPartitionOwner(GetPartitionID(key)) IN
    IF owner = NullPtr
    THEN [status |-> "InsufficientMemberCount", val |-> <<>>]
    ELSE IF owner \notin Range(members_)
    THEN [status |-> "use_after_free", val |-> <<>>]
    ELSE LET owner_key == Sum64(config_, owner.name)
             it == LowerBound(sorted_set_, owner_key)
             start_idx == IF it >= Len(sorted_set_) THEN 0 ELSE it
         IN ClosestWalk(count, start_idx, <<>>, {}, 0)

ClosestN(t, key, count) ==
  /\ Starts(t)
  /\ IF count <= 0
     THEN Returns(t, "GetClosestN", <<key, count>>, "ok", <<>>)
     ELSE /\ LockFree
          /\ LET r == GetClosestN(key, count)
             IN IF r.status = "no_return"
                THEN /\ Continues(t, "closest_loop")
                     /\ arg' = [arg EXCEPT ![t] = key]
                     /\ UNCHANGED tmp
                ELSE Returns(t, "GetClosestN", <<key, count>>, r.status, r.val)
  /\ UNCHANGED cacheVars
  /\ UNCHANGED <<config_, ctor, ringVars, mutex_, snapshot>>

LoadDistribution(t) ==
  /\ Starts(t)
  /\ LockFree
  /\ Returns(t, "LoadDistribution", <<>>, "ok", loads_)
  /\ UNCHANGED cacheVars
  /\ UNCHANGED <<config_, ctor, ringVars, mutex_, snapshot>>

\* the clones GetMembers returns: one per cached pointer, known by its name
Clones(cache) == {m.name : m \in cache}

\* the cache test: clean and not empty
CacheUsable == ~members_dirty_ /\ cached_members_ # {}

\* the cache test under the shared lock
GetMembersCheck(t) ==
  /\ Starts(t)
  /\ LockFree
  /\ IF CacheUsable
     THEN Returns(t, "GetMembers", <<>>, "ok", Clones(cached_members_))
     ELSE /\ Continues(t, "gm_write")
          /\ UNCHANGED <<arg, tmp>>
  /\ UNCHANGED <<config_, ctor, ringVars, mutex_, snapshot, cacheVars>>

\* the exclusive lock, the second test and the rebuild of the cache
GetMembersWrite(t) ==
  /\ pc[t] = "gm_write"
  /\ LockFreeForWrite
  /\ IF CacheUsable
     THEN /\ Returns(t, "GetMembers", <<>>, "ok", Clones(cached_members_))
          /\ UNCHANGED cacheVars
     ELSE /\ cached_members_' = Range(members_)
          /\ members_dirty_' = FALSE
          /\ Returns(t, "GetMembers", <<>>, "ok", Clones(Range(members_)))
  /\ UNCHANGED <<config_, ctor, ringVars, mutex_, calls, snapshot>>

(* ----------------------------- specification --------------------------- *)
\* configurations of running rings: partition count, replication factor, load
RunConfigs ==
  {<<3, 1, <<1, 1>>>>, <<3, 2, <<1, 1>>>>, <<2, 2, <<5, 4>>>>}

RECURSIVE ListsUpTo(_)
ListsUpTo(n) ==
  IF n = 0 THEN {<<>>}
  ELSE LET shorter == ListsUpTo(n - 1)
       IN  shorter \cup {Append(l, m) : l \in {x \in shorter : Len(x) = n - 1},
                                        m \in Names}

Install(st) ==
  /\ config_ = st.config
  /\ members_ = st.members
  /\ ring_ = st.ring
  /\ sorted_set_ = st.sorted_set
  /\ partitions_ = st.partitions
  /\ loads_ = st.loads

ThreadsIdle ==
  /\ mutex_ = 0
  /\ pc = [t \in Threads |-> "idle"]
  /\ arg = [t \in Threads |-> <<>>]
  /\ tmp = [t \in Threads |-> NoLocals]
  /\ last = NoReturn
  /\ calls = 0
  /\ snapshot = NoSnapshot
  /\ cached_members_ = {}
  /\ members_dirty_ = TRUE

\* a ring whose construction succeeded
Init ==
  \E c \in RunConfigs, b \in Bases, list \in ListsUpTo(MaxInit) :
    LET raw == [hasher |-> b, partition_count |-> c[1],
                replication_factor |-> c[2], load |-> c[3]]
        r == Constructor(list, raw)
    IN /\ r.status = "ok"
       /\ ctor = [status |-> "ok", members |-> list, cfg |-> raw]
       /\ Install(r.st)
       /\ ThreadsIdle

Step(t) ==
    \/ \E name \in Names : AddCheck(t, name)
    \/ AddWrite(t)
    \/ AddCalc(t)
    \/ \E name \in Names : RemoveCheck(t, name)
    \/ RemoveCalc(t)
    \/ RemoveWrite(t)
    \/ \E key \in Keys : LocateCheck(t, key)
    \/ LocateLock(t)
    \/ \E key \in Keys, count \in -1 .. Cardinality(Names) : ClosestN(t, key, count)
    \/ LoadDistribution(t)
    \/ GetMembersCheck(t)
    \/ GetMembersWrite(t)

Next == \E t \in Threads : Step(t)

Spec == Init /\ [][Next]_vars

\* one caller: every call ends before the next one starts
NextSeq == Step(1)

SpecSeq == Init /\ [][NextSeq]_vars

(* ------------------------ construction as a step ----------------------- *)
\* configurations handed to the constructor; 0 stands for a value left unset
CtorPartitionCounts == {0, 2, 3, 7}
CtorReplicationFactors == {0, 1, 2, 4}
CtorLoads == {<<0, 1>>, <<1, 1>>, <<5, 4>>}

InitCtor ==
  \E h \in Bases \cup {NoHasher}, p \in CtorPartitionCounts,
     r \in CtorReplicationFactors, l \in CtorLoads,
     list \in ListsUpTo(MaxInit + 1) :
    LET raw == [hasher |-> h, partition_count |-> p,
                replication_factor |-> r, load |-> l]
    IN /\ ctor = [status |-> "new", members |-> list, cfg |-> raw]
       /\ Install(EmptyRing(raw))
       /\ ThreadsIdle

Construct ==
  /\ ctor.status = "new"
  /\ LET r == Constructor(ctor.members, ctor.cfg)
     IN /\ ctor' = [ctor EXCEPT !.status = r.status]
        /\ config_' = r.st.config
        /\ members_' = r.st.members
        /\ ring_' = r.st.ring
        /\ sorted_set_' = r.st.sorted_set
        /\ partitions_' = r.st.partitions
        /\ loads_' = r.st.loads
  /\ UNCHANGED cacheVars
  /\ UNCHANGED <<mutex_, pc, arg, tmp, last, calls, snapshot>>

NextCtor == Construct

SpecCtor == InitCtor /\ [][NextCtor]_vars

(* ------------- three initial members, two of them colliding ------------ *)
\* P = 2, R = 2, L = 1.5: a cap of one partition per member with three
\* members, of two with two
RaceConfig == <<2, 2, <<3, 2>>>>

InitRace ==
  \E b \in Bases, list \in ListsUpTo(MaxInit + 1) :
    LET raw == [hasher |-> b, partition_count |-> RaceConfig[1],
                replication_factor |-> RaceConfig[2], load |-> RaceConfig[3]]
        r == Constructor(list, raw)
    IN /\ Len(list) = MaxInit + 1
       /\ r.status = "ok"
       /\ ctor = [status |-> "ok", members |-> list, cfg |-> raw]
       /\ Install(r.st)
       /\ ThreadsIdle

SpecRace == InitRace /\ [][Next]_vars

(* ------------------------------- claims -------------------------------- *)
\* no call is inside an exclusive section: the ring is at a public-method boundary
AtBoundary == mutex_ = 0

MemberCount == Cardinality(DOMAIN members_)

\* load <= ceil((P / M) * L), without computing the ceiling
WithinCeilCap(load) ==
  load * MemberCount * config_.load[2]
    < config_.partition_count * config_.load[1] + MemberCount * config_.load[2]

\* C1: at every public-method boundary of a ring with M > 0 members the loads
\* sum to the partition count and no load exceeds ceil((P / M) * L)
C1_LoadsSumToPAndRespectCap ==
  (AtBoundary /\ MemberCount > 0) =>
    /\ SumLoads(loads_) = config_.partition_count
    /\ \A n \in DOMAIN loads_ : WithinCeilCap(loads_[n])

\* C2: at every public-method boundary every member pointer of the ring map
\* and of the partition table is a member of the registry
C2_NoStaleReference ==
  AtBoundary => (Range(ring_) \cup Range(partitions_)) \subseteq Range(members_)

\* C3: what RemoveByName publishes is the placement computed from the ring
\* and the member count as they are when it holds the exclusive lock
C3_RemovePublishesCurrentPlacement ==
  [][\A t \in Threads :
       (pc[t] = "rm_write" /\ pc'[t] = "idle" /\ last'.t = t
          /\ last'.status = "ok" /\ DOMAIN members_' # {}) =>
         LET r == CalculatePartitionsWithoutMember(arg[t])
         IN  r.err = "none" /\ partitions_' = r.partitions /\ loads_' = r.loads]_vars

\* C4: a thread that holds the exclusive lock in Add never waits for a lock,
\* so the call runs to completion
C4_AddNeverWaitsUnderItsLock ==
  \A t \in Threads : ~(mutex_ = t /\ pc[t] = "add_wait")

\* C5: when Add or RemoveByName ends with InsufficientSpace, the registry,
\* the ring map, the sorted array, the partition table and the load map are
\* what they were before the call
C5_InsufficientSpaceRollsBack ==
  [][\A t \in Threads :
       (pc[t] # "idle" /\ pc'[t] = "idle" /\ last'.t = t
          /\ last'.status = "InsufficientSpace") =>
         ringVars' = (IF pc[t] = "add_calc" THEN tmp[t].before ELSE ringVars)]_vars

\* C6: a configuration with L >= 1 and M > 0 initial members that passes
\* validation is constructed without InsufficientSpace (P = 7, R = 4,
\* L = 1.25 with three members among them)
C6_ValidatedConstructionCompletes ==
  LET cfg == ApplyDefaults(ctor.cfg)
  IN  (/\ ctor.status # "new"
       /\ cfg.hasher # NoHasher
       /\ Len(ctor.members) > 0
       /\ cfg.load[1] >= cfg.load[2]
       /\ ~ValidateConfig(Len(ctor.members), cfg))
      => ctor.status = "ok"

\* C7: construction is rejected when the hasher is missing; with a hasher and
\* M > 0 members it is rejected exactly when ceil((P / M) * L) > 2R, the
\* defaults standing in for zero values; with a hasher and no member it is
\* never rejected and yields an empty ring
C7_ConfigErrorExactlyWhenCapTooLarge ==
  LET raw == ctor.cfg
      P == IF raw.partition_count = 0 THEN 271 ELSE raw.partition_count
      R == IF raw.replication_factor = 0 THEN 20 ELSE raw.replication_factor
      L == IF raw.load[1] = 0 THEN <<5, 4>> ELSE raw.load
      M == Len(ctor.members)
  IN  ctor.status # "new" =>
        /\ raw.hasher = NoHasher => ctor.status = "invalid_argument"
        /\ (raw.hasher # NoHasher /\ M > 0) =>
             (ctor.status = "invalid_argument" <=> P * L[1] > 2 * R * M * L[2])
        /\ (raw.hasher # NoHasher /\ M = 0) =>
             /\ ctor.status = "ok"
             /\ ringVars = <<EmptyMap, EmptyMap, <<>>, EmptyMap, EmptyMap>>

\* a configuration whose cap equals 2R exactly, accepted by validation
C7_Witness ==
  LET cfg == ApplyDefaults(ctor.cfg)
  IN  /\ ctor.status \notin {"new", "invalid_argument"}
      /\ Len(ctor.members) > 0
      /\ cfg.partition_count * cfg.load[1]
           = 2 * cfg.replication_factor * Len(ctor.members) * cfg.load[2]

\* C8: at every public-method boundary the partition table has an owner for
\* every partition id exactly when the registry is not empty
C8_TableTotalIffMembers ==
  AtBoundary =>
    ((DOMAIN partitions_ = 0 .. (config_.partition_count - 1)) <=> MemberCount > 0)

\* what LocateKey returns when nothing runs between its two steps
LocateKey(key) ==
  IF DOMAIN ring_ = {} THEN NullPtr ELSE GetPartitionOwner(GetPartitionID(key))

\* C9: on a ring with members LocateKey returns the member the partition
\* table records for hasher(k) mod P; on a ring without members LocateKey
\* returns none and LoadDistribution an empty map
C9_LocateReturnsTableEntry ==
  /\ last.op = "LocateKey" =>
       IF MemberCount = 0 THEN last.val = <<NullPtr>>
       ELSE LET part_id == Sum64(config_, last.arg) % config_.partition_count
            IN  last.val = <<IF part_id \in DOMAIN partitions_
                             THEN partitions_[part_id] ELSE NullPtr>>
  /\ (last.op = "LoadDistribution" /\ MemberCount = 0) => last.val = EmptyMap

\* C10: for 1 <= n <= M the first member GetClosestN(k, n) returns is the
\* member LocateKey(k) returns
C10_PrimaryFirst ==
  (/\ last.op = "GetClosestN"
   /\ last.status = "ok"
   /\ last.arg[2] >= 1
   /\ last.arg[2] <= MemberCount)
  => (last.val # <<>> /\ last.val[1] = LocateKey(last.arg[1]))

\* distinct (member, index) pairs hash to distinct positions under cfg
NoCollisions(cfg) ==
  \A n1, n2 \in Names : \A i1, i2 \in 1 .. cfg.replication_factor :
    (<<n1, i1>> # <<n2, i2>>) =>
      VNodeHashes(cfg, n1)[i1] # VNodeHashes(cfg, n2)[i2]

\* the names of a sequence of member pointers
NamesOf(val) == {val[i].name : i \in 1 .. Len(val)}

\* C11: without hash collisions, for 1 <= n <= M, GetClosestN(k, n) returns
\* n members with pairwise distinct names, all registered; for n = M they are
\* the whole member set
C11_ClosestNDistinctRegistered ==
  NoCollisions(config_) =>
    /\ \A t \in Threads : pc[t] # "closest_loop"
    /\ (/\ last.op = "GetClosestN"
        /\ last.arg[2] >= 1
        /\ last.arg[2] <= MemberCount)
       => /\ last.status = "ok"
          /\ Len(last.val) = last.arg[2]
          /\ Cardinality(NamesOf(last.val)) = last.arg[2]
          /\ \A i \in 1 .. Len(last.val) : last.val[i] \in Range(members_)
          /\ last.arg[2] = MemberCount => NamesOf(last.val) = DOMAIN members_

\* C12: GetClosestN(k, n) returns an empty list when n <= 0 and raises
\* InsufficientMemberCount when n > M; the ring is unchanged in both cases
C12_ClosestNRejectsBadCount ==
  [][(calls' = calls + 1 /\ last'.op = "GetClosestN") =>
       /\ last'.arg[2] <= 0 =>
            (last'.status = "ok" /\ last'.val = <<>> /\ ringVars' = ringVars)
       /\ last'.arg[2] > MemberCount =>
            (last'.status = "InsufficientMemberCount" /\ ringVars' = ringVars)]_vars

\* GetClosestN(k, 1) has just raised on a ring without members
C12_Witness ==
  /\ last.op = "GetClosestN"
  /\ last.status = "InsufficientMemberCount"
  /\ last.arg[2] = 1
  /\ MemberCount = 0

\* C13: Add of a name that is in the registry and RemoveByName of a name that
\* is not in it leave the registry, the ring map, the sorted array, the
\* partition table and the load map as they were: no step of such a call
\* changes any of them, and the call ends where the code tests the name
C13_ExistingAddAbsentRemoveAreNoOps ==
  [][\A t \in Threads :
       /\ (/\ pc[t] = "idle" /\ pc'[t] = "idle"
           /\ last'.t = t /\ last'.op = "Add"
           /\ last'.arg \in DOMAIN members_)
          => (last'.status = "noop" /\ ringVars' = ringVars)
       /\ (/\ pc[t] = "add_write" /\ pc'[t] # "add_write"
           /\ arg[t] \in DOMAIN members_)
          => (pc'[t] = "idle" /\ last'.status = "noop" /\ ringVars' = ringVars)
       /\ (/\ pc[t] = "idle" /\ pc'[t] = "idle"
           /\ last'.t = t /\ last'.op = "RemoveByName"
           /\ last'.arg \notin DOMAIN members_)
          => (last'.status = "noop" /\ ringVars' = ringVars)
       /\ (/\ pc[t] \in {"rm_calc", "rm_write"} /\ pc'[t] # pc[t]
           /\ arg[t] \notin DOMAIN members_)
          => ringVars' = ringVars]_vars

\* an Add of a registered name has just ended on a ring with members
C13_Witness ==
  /\ last.op = "Add"
  /\ last.status = "noop"
  /\ last.arg \in DOMAIN members_
  /\ DOMAIN partitions_ # {}

\* C14: Add(m) of a new member followed by RemoveByName(m.name), with no other
\* mutation in between, restores the partition table and the load map to
\* their values before the Add
C14_AddRemoveRoundTrip ==
  [][\A t \in Threads :
       (/\ pc[t] = "rm_write" /\ pc'[t] = "idle"
        /\ last'.status = "ok"
        /\ snapshot.name = arg[t]
        /\ DOMAIN snapshot.partitions # {})
       => (partitions_' = snapshot.partitions /\ loads_' = snapshot.loads)]_vars

\* the lists that hold the elements of list in another order
Reorderings(list) ==
  {l \in [1 .. Len(list) -> Range(list)] : Range(l) = Range(list)}

\* no two virtual nodes of the listed members hash to the same position
NoCollisionsAmong(cfg, list) ==
  \A i, j \in 1 .. Len(list) : \A a, b \in 1 .. cfg.replication_factor :
    (<<i, a>> # <<j, b>>) =>
      VNodeHashes(cfg, list[i])[a] # VNodeHashes(cfg, list[j])[b]

\* the partition table with each member pointer replaced by the member's name
OwnerNames(partitions) == [p \in DOMAIN partitions |-> partitions[p].name]

\* C15: without hash collisions, constructing with the same configuration and
\* the same distinctly named members in another list order gives the same
\* partition table (by member name) and the same load map
C15_ConstructionOrderIndependent ==
  (/\ ctor.status # "new"
   /\ ctor.cfg.hasher # NoHasher
   /\ Cardinality(Range(ctor.members)) = Len(ctor.members)
   /\ ApplyDefaults(ctor.cfg).replication_factor <= HashSpace
   /\ NoCollisionsAmong(ApplyDefaults(ctor.cfg), ctor.members))
  => \A l \in Reorderings(ctor.members) :
       LET r == Constructor(l, ctor.cfg)
       IN /\ r.status = ctor.status
          /\ OwnerNames(r.st.partitions) = OwnerNames(partitions_)
          /\ r.st.loads = loads_

\* a ring was constructed from three members without collisions
C15_Witness ==
  /\ ctor.status = "ok"
  /\ Len(ctor.members) = 3
  /\ Cardinality(Range(ctor.members)) = 3
  /\ ctor.cfg.hasher # NoHasher
  /\ NoCollisionsAmong(ApplyDefaults(ctor.cfg), ctor.members)
  /\ DOMAIN partitions_ # {}

\* thread t takes a step of a read that looks at the ring: the ring_.empty()
\* test or the lookup of LocateKey, GetClosestN past its count <= 0 return,
\* LoadDistribution, the two steps of GetMembers
ReadStep(t) ==
  \/ /\ pc[t] = "idle"
     /\ pc'[t] \in {"loc_lock", "closest_loop", "gm_write"}
  \/ /\ pc[t] \in {"loc_lock", "gm_write"}
     /\ pc'[t] = "idle"
  \/ /\ pc[t] = "idle"
     /\ pc'[t] = "idle"
     /\ calls' = calls + 1
     /\ last'.t = t
     /\ CASE last'.op = "GetClosestN" -> last'.arg[2] > 0
          [] last'.op \in {"LocateKey", "LoadDistribution", "GetMembers"} -> TRUE
          [] OTHER -> FALSE

\* C16: every read is computed from a single committed state of the ring: no
\* step of a read looks at the ring while a mutation holds it half applied
C16_ReadsSeeCommittedState ==
  [][\A t \in Threads : ReadStep(t) => mutex_ = 0]_vars

\* the member objects a returned value points to
Handles(ret) ==
  IF ret.op \in {"LocateKey", "GetClosestN"} /\ ret.status = "ok"
  THEN Range(ret.val) \ {NullPtr}
  ELSE {}

\* the member objects alive: members_ owns them
Live == Range(members_)

\* C17: a handle returned by LocateKey or GetClosestN that refers to a live
\* member keeps referring to a live member through every later step of Add or
\* RemoveByName
C17_HandlesNeverDangle ==
  [][\A h \in Handles(last) : h \in Live => h \in Range(members_')]_vars

\* every partition of [0, P) belongs to the member called name, whose load is P
AllPartitionsOf(name) ==
  /\ DOMAIN partitions_ = 0 .. (config_.partition_count - 1)
  /\ \A p \in DOMAIN partitions_ : partitions_[p].name = name
  /\ loads_ = [n \in {name} |-> config_.partition_count]

\* C18: a ring constructed with one initial member, under a configuration that
\* validation accepts, maps every partition to that member with load P
C18_SingleMemberOwnsAll ==
  (/\ ctor.status # "new"
   /\ Len(ctor.members) = 1
   /\ ~ValidateConfig(1, ApplyDefaults(ctor.cfg)))
  => (ctor.status = "ok" /\ AllPartitionsOf(ctor.members[1]))

\* every virtual node of the member called name lies on a position of ring
AllNodesCollide(ring, name) ==
  \A i \in 1 .. config_.replication_factor :
    VNodeHashes(config_, name)[i] \in DOMAIN ring

\* C19: an Add of a new member whose R virtual-node hashes all coincide with
\* positions already occupied in the ring completes its placement: it raises
\* no error and leaves a total partition table whose loads sum to P
C19_FullyCollidingAddSucceeds ==
  [][\A t \in Threads :
       (/\ pc[t] = "add_calc" /\ pc'[t] = "idle"
        /\ AllNodesCollide(tmp[t].before[2], arg[t])
        /\ last'.status # "system_error")
       => /\ last'.status = "ok"
          /\ DOMAIN partitions_' = 0 .. (config_.partition_count - 1)
          /\ SumLoads(loads_') = config_.partition_count]_vars

\* C20: when distinct (member, index) pairs hash to distinct positions, the
\* sorted virtual-node array has exactly M * R entries at every public-method
\* boundary, also for a ring constructed from a list that names a member twice
C20_SortedSetHasMTimesREntries ==
  (AtBoundary /\ NoCollisions(config_))
    => Len(sorted_set_) = MemberCount * config_.replication_factor

\* the lists that name each registered member once
MemberLists ==
  {l \in ListsUpTo(MaxInit + 1) :
     Len(l) = MemberCount /\ Range(l) = DOMAIN members_}

\* C21: placement is a function of the member set and the configuration
\* alone: without hash collisions, a ring that started empty and reached the
\* set S by successful Add calls has the partition table and the load map of
\* a ring constructed with S
C21_AddsMatchConstruction ==
  (/\ AtBoundary
   /\ NoCollisions(config_)
   /\ ctor.members = <<>>
   /\ MemberCount > 0
   /\ calls = MemberCount
   /\ last.op = "Add" /\ last.status = "ok")
  => \A l \in MemberLists :
       LET r == Constructor(l, ctor.cfg)
       IN /\ r.status = "ok"
          /\ OwnerNames(r.st.partitions) = OwnerNames(partitions_)
          /\ r.st.loads = loads_

\* the load of the member called name in a load map under construction
LoadOf(loads, name) == IF name \in DOMAIN loads THEN loads[name] ELSE 0

\* C22: placement raises InsufficientSpace only when the member at every
\* position of the sorted array is at the cap: as long as some member that
\* owns a virtual node has a load below the cap, the partition is assigned
C22_InsufficientSpaceOnlyWhenAllAtCap ==
  (ctor.status = "InsufficientSpace")
  => LET d == DistributePartitions(config_, members_, ring_, sorted_set_)
         avg == AverageLoad(config_, members_)
     IN \A i \in 1 .. Len(sorted_set_) :
          sorted_set_[i] \in DOMAIN ring_
            => ~UnderCap(LoadOf(d.loads, ring_[sorted_set_[i]].name), avg[1], avg[2])

\* C23: the replica list depends only on the primary member: a key with the
\* same LocateKey answer as the key of a GetClosestN(k, n) call gets the same
\* sequence of members for the same n, whatever its partition
C23_ReplicasDependOnPrimaryOnly ==
  (/\ last.op = "GetClosestN"
   /\ last.status = "ok"
   /\ last.arg[2] >= 1)
  => \A k2 \in Keys :
       LocateKey(k2) = LocateKey(last.arg[1])
         => GetClosestN(k2, last.arg[2]) = [status |-> "ok", val |-> last.val]

\* GetClosestN(k, 2) has returned two members and the other key lies in
\* another partition with the same primary
C23_Witness ==
  /\ last.op = "GetClosestN"
  /\ last.status = "ok"
  /\ last.arg[2] = 2
  /\ Len(last.val) = 2
  /\ \E k2 \in Keys :
       /\ GetPartitionID(k2) # GetPartitionID(last.arg[1])
       /\ LocateKey(k2) = LocateKey(last.arg[1])

\* C24: GetMembers returns clones of exactly the members in the registry, and
\* whenever the cache is marked clean and is not empty it holds exactly the
\* registry's members
C24_GetMembersReturnsRegistry ==
  /\ (AtBoundary /\ CacheUsable) => cached_members_ = Range(members_)
  /\ last.op = "GetMembers" => last.val = DOMAIN members_

\* threads t1 and t2 are both past the first check of the call at position p,
\* with the same name
BothAt(t1, t2, p) ==
  /\ t1 # t2
  /\ pc[t1] = p /\ pc[t2] = p
  /\ arg[t1] = arg[t2]

\* C25: when two threads call RemoveByName with the same name, or Add with
\* the same name, at the same time, the re-check under the write lock makes
\* exactly one of them perform the mutation; the other returns without
\* changing the registry, the ring, the partition table or the load map
C25_RecheckLetsOneMutate ==
  [][\A t1, t2 \in Threads :
       /\ (BothAt(t1, t2, "rm_write") /\ pc'[t1] = "idle")
          => /\ arg[t1] \in DOMAIN members_
             /\ last'.status = "ok"
             /\ arg[t1] \notin DOMAIN members_'
             /\ arg'[t2] \notin DOMAIN members_'
       /\ (/\ t1 # t2 /\ pc[t2] = "rm_write" /\ pc'[t2] = "idle"
           /\ last.t = t1 /\ last.op = "RemoveByName"
           /\ last.status = "ok" /\ last.arg = arg[t2])
          => (last'.status = "noop" /\ ringVars' = ringVars)
       /\ (BothAt(t1, t2, "add_write") /\ pc'[t1] # "add_write")
          => /\ arg[t1] \notin DOMAIN members_
             /\ arg[t1] \in DOMAIN members_'
             /\ pc'[t1] = "add_calc"
       /\ (/\ t1 # t2 /\ pc[t2] = "add_write" /\ pc'[t2] # "add_write"
           /\ last.t = t1 /\ last.op = "Add" /\ last.arg = arg[t2])
          => (pc'[t2] = "idle" /\ last'.status = "noop" /\ ringVars' = ringVars)]_vars

\* one thread has just removed the name for which the other thread waits at
\* its write lock, past its first check
C25_Witness ==
  \E t1, t2 \in Threads :
    /\ t1 # t2
    /\ pc[t2] = "rm_write"
    /\ last.t = t1 /\ last.op = "RemoveByName" /\ last.status = "ok"
    /\ last.arg = arg[t2]
    /\ arg[t2] \notin DOMAIN members_
    /\ DOMAIN members_ # {}

\* C26: after construction and after any sequence of Add / RemoveByName, hash
\* collisions included, the sorted array is ascending and every position in
\* it is a key of the ring map that maps to a registered member
C26_SortedSetPositionsHaveOwners ==
  AtBoundary =>
    /\ \A i \in 1 .. (Len(sorted_set_) - 1) : sorted_set_[i] <= sorted_set_[i + 1]
    /\ \A i \in 1 .. Len(sorted_set_) :
         /\ sorted_set_[i] \in DOMAIN ring_
         /\ ring_[sorted_set_[i]] \in Range(members_)

\* C27: in every reachable ring state, also one where collisions have left a
\* registered member without a virtual node, the walk of GetClosestN(k, n)
\* with n <= M terminates: no call stays in the loop
C27_ClosestWalkTerminates ==
  \A t \in Threads : pc[t] # "closest_loop"

====
